---- MODULE Spec2Model ----
(***************************************************************************)
(* A model of brainglobe_registration:                                     *)
(*   - elastix/register.py: setup_parameter_object and run_registration    *)
(*     (both implementations kept in the repository),                      *)
(*   - widgets/adjust_moving_image_view.py: AdjustMovingImageView.         *)
(* The registration engine (itk-elastix), the file system and Qt's signal  *)
(* dispatch are modelled by what the code relies on them to do.            *)
(***************************************************************************)
EXTENDS Integers, Sequences, FiniteSets, TLC

VARIABLES
    \* setup_parameter_object
    parameter_lists,      \* the argument of the call
    parameter_object,     \* the returned object: the sequence of parameter maps
    build_pc,             \* "called" | "returned" | "raised"
    \* run_registration, one call per caller
    pc,                   \* position of each call
    args,                 \* arguments of each call
    elastix_object,       \* fixed/moving roles the engine was given
    result_transform_parameters, \* per call: one map per stage
    temp_interp_order,    \* the local of lines 87-89
    pre_override,         \* history: the transform's maps just before line 90
    annotation_image_transformix, \* the annotation as transformix resampled it
    deformation_field,    \* the field as transformix produced it (line 113)
    returned,             \* the tuple each call returned
    files,                \* the file system: path -> [content, producer]
    last_read,            \* what a consumer of a returned transform last read
    \* AdjustMovingImageView
    adjust_moving_image_x,
    adjust_moving_image_y,
    adjust_moving_image_rotate,
    emitted,              \* signals emitted by the last dispatched event, in order
    last_event            \* the last dispatched event

buildVars == <<parameter_lists, parameter_object, build_pc>>
runVars == <<pc, args, elastix_object, result_transform_parameters,
             temp_interp_order, pre_override, annotation_image_transformix,
             deformation_field,
             returned, files, last_read>>
viewVars == <<adjust_moving_image_x, adjust_moving_image_y,
              adjust_moving_image_rotate, emitted, last_event>>
vars == <<buildVars, runVars, viewVars>>

-----------------------------------------------------------------------------
(* Bounds of the model *)

\* longest parameter list given to setup_parameter_object / run_registration
MaxStages == 2
\* largest |offset| a user enters in the x / y spin boxes
MaxOffset == 2
\* largest number of rotation single steps a user enters, either way
MaxRotateSteps == 2

-----------------------------------------------------------------------------
(* Values *)

\* Optional[...]: None is the empty set, a value v is {v}
None == {}
Some(v) == {v}
IsNone(o) == o = {}
The(o) == CHOOSE v \in o : TRUE

\* the empty dict / the empty parameter map
EmptyMap == <<>>

Kinds == {"rigid", "affine", "bspline"}
Keys == {"Transform", "MaximumNumberOfIterations", "FinalBSplineInterpolationOrder"}

\* option values are lists of strings
ValuesOf(k) ==
    CASE k = "Transform" -> {<<"EulerTransform">>, <<"BSplineTransform">>}
      [] k = "MaximumNumberOfIterations" -> {<<"2048">>}
      [] k = "FinalBSplineInterpolationOrder" -> {<<"1">>, <<"3">>}

AllValues == UNION {ValuesOf(k) : k \in Keys}

\* the dicts a caller passes
Dicts ==
    UNION {{d \in [D -> AllValues] : \A k \in D : d[k] \in ValuesOf(k)} :
           D \in SUBSET Keys}

\* (transform_type, parameter_dict); parameter_dict may be None
Entries == Kinds \X ({None} \cup {Some(d) : d \in Dicts})

ListsUpTo(S, n) == UNION {[1..m -> S] : m \in 0..n}

-----------------------------------------------------------------------------
(* setup_parameter_object, register.py:137-162 *)

\* itk.ParameterObject.GetDefaultParameterMap(transform_type): the engine's
\* default map of the kind
GetDefaultParameterMap(transform_type) ==
    [k \in Keys |->
        CASE k = "Transform" ->
               (CASE transform_type = "rigid" -> <<"EulerTransform">>
                  [] transform_type = "affine" -> <<"AffineTransform">>
                  [] transform_type = "bspline" -> <<"BSplineTransform">>)
          [] k = "MaximumNumberOfIterations" -> <<"256">>
          [] k = "FinalBSplineInterpolationOrder" -> <<"3">>]

\* a faulty variant of clear: the default entries are kept
KeepDefaults(parameter_map) == parameter_map

\* parameter_map.clear()
clear(parameter_map) == EmptyMap

\* for k, v in parameter_dict.items(): parameter_map[k] = v
SetItems(parameter_map, parameter_dict) ==
    [k \in DOMAIN parameter_map \cup DOMAIN parameter_dict |->
        IF k \in DOMAIN parameter_dict THEN parameter_dict[k] ELSE parameter_map[k]]

\* a faulty variant of StageMap: an empty dict leaves the default map in place
StageMapDefaultWhenEmpty(transform_type, parameter_dict) ==
    IF parameter_dict = EmptyMap
    THEN GetDefaultParameterMap(transform_type)
    ELSE SetItems(clear(GetDefaultParameterMap(transform_type)), parameter_dict)

\* the body of the loop up to AddParameterMap
StageMap(transform_type, parameter_dict) ==
    SetItems(clear(GetDefaultParameterMap(transform_type)), parameter_dict)

\* a faulty variant of AddParameterMap: the map is put in front
PrependParameterMap(maps, parameter_map) == <<parameter_map>> \o maps

\* parameter_object.AddParameterMap(parameter_map)
AddParameterMap(maps, parameter_map) == Append(maps, parameter_map)

\* the loop: None.items() raises AttributeError and nothing is returned
RECURSIVE BuildLoop(_, _)
BuildLoop(rest, maps) ==
    IF rest = <<>> THEN [raised |-> FALSE, maps |-> maps]
    ELSE LET transform_type == Head(rest)[1]
             parameter_dict == Head(rest)[2]
         IN  IF IsNone(parameter_dict)
             THEN [raised |-> TRUE, maps |-> <<>>]
             ELSE BuildLoop(Tail(rest),
                            AddParameterMap(maps,
                                StageMap(transform_type, The(parameter_dict))))

setup_parameter_object(lists) == BuildLoop(lists, <<>>)

-----------------------------------------------------------------------------
(* The older setup_parameter_object,                                       *)
(* src/src/brainglobe_registration/elastix/register.py:41-66               *)

\* setup_parameter_object(rigid, affine, bspline, affine_iterations)
setup_parameter_object_flags(rigid, affine, bspline, affine_iterations) ==
    (IF rigid THEN <<GetDefaultParameterMap("rigid")>> ELSE <<>>)
    \o (IF affine
        THEN <<[GetDefaultParameterMap("affine")
                 EXCEPT !["MaximumNumberOfIterations"] = <<affine_iterations>>]>>
        ELSE <<>>)
    \o (IF bspline THEN <<GetDefaultParameterMap("bspline")>> ELSE <<>>)

-----------------------------------------------------------------------------
(* The engine, as the code uses it *)

\* itk.ElastixRegistrationMethod.New(a, b): the first input is the fixed
\* image, the second the moving image
ElastixRegistrationMethodNew(first, second) == [fixed |-> first, moving |-> second]

\* GetOutput(): the moving input resampled into the fixed input's space
GetOutput(elastix) == [content |-> elastix.moving, space |-> elastix.fixed]

OrderKey == "FinalBSplineInterpolationOrder"

\* GetTransformParameterObject(): one transform map per stage, carrying the
\* stage's FinalBSplineInterpolationOrder (the engine's default where the
\* stage's parameter map does not set it)
GetTransformParameterObject(maps) ==
    [i \in 1..Len(maps) |->
        [FinalBSplineInterpolationOrder |->
            IF OrderKey \in DOMAIN maps[i] THEN maps[i][OrderKey] ELSE <<"3">>]]

\* ParameterObject.GetParameter(index, key): index counts from 0
GetParameter(transform, index, key) == transform[index + 1][key]

\* ParameterObject.SetParameter(key, value), no index: every map gets value
SetParameter(transform, key, value) ==
    [i \in DOMAIN transform |-> [transform[i] EXCEPT ![key] = value]]

\* a string argument is stored as a one-element tuple
AsValues(string) == <<string>>

\* itk.transformix_filter(image, transform): the image resampled with each
\* stage's order as the transform holds it at the call
transformix_filter(image, transform) ==
    [content |-> image,
     orders |-> [i \in DOMAIN transform |-> transform[i][OrderKey]]]

\* GetOutputDeformationField(): two components, numpy indices 0 and 1
EngineField(r) == <<[of |-> r, component |-> 0], [of |-> r, component |-> 1]>>

\* deformation_field[:, :, k]
Component(field, k) == field[k + 1]

\* the field with its two components exchanged
SwapAxes(field) == <<Component(field, 1), Component(field, 0)>>

-----------------------------------------------------------------------------
(* The file system: a set of files, one per path *)

Cwd == "."
StrayName == "deformationField.tiff"

Exists(fs, dir, name) == \E f \in fs : f.dir = dir /\ f.name = name

\* imwrite / the engine writing a file: an older file at the path is replaced;
\* a file's content is the sequence of the field components it holds
WriteFile(fs, dir, name, content, producer) ==
    {f \in fs : ~(f.dir = dir /\ f.name = name)}
    \cup {[dir |-> dir, name |-> name, content |-> content, producer |-> producer]}

\* a faulty variant of unlink: the file is left in place
unlink_nothing(fs, dir, name) == fs

\* os.unlink(path), the path being present
unlink(fs, dir, name) == {f \in fs : ~(f.dir = dir /\ f.name = name)}

-----------------------------------------------------------------------------
(* run_registration: concurrent calls, each by its own caller *)

Callers == {"A", "B"}

\* the stages the callers of run_registration ask for
RunEntries ==
    {<<"rigid", Some([Transform |-> <<"EulerTransform">>])>>,
     <<"affine", Some([Transform |-> <<"AffineTransform">>,
                       FinalBSplineInterpolationOrder |-> <<"0">>])>>,
     <<"bspline", Some([Transform |-> <<"BSplineTransform">>,
                        FinalBSplineInterpolationOrder |-> <<"1">>])>>}

OutputDirectories == {None, Some("out")}

\* arguments of run_registration(atlas_image, moving_image, annotation_image,
\* parameter_lists, output_directory)
RunArgs ==
    [impl : {"current"},
     atlas_image : {"atlas"}, moving_image : {"sample"},
     annotation_image : {"annotation"},
     parameter_lists : ListsUpTo(RunEntries, MaxStages),
     output_directory : OutputDirectories]

\* arguments of the older run_registration(fixed_image, moving_image, rigid,
\* affine, bspline, affine_iterations)
OlderArgs ==
    [impl : {"older"},
     fixed_image : {"atlas"}, moving_image : {"sample"},
     rigid : BOOLEAN, affine : BOOLEAN, bspline : BOOLEAN,
     affine_iterations : {"2048"}]

\* a faulty variant of ElastixInputs: the images are handed over in the
\* order of the signature
ElastixInputsAsNamed(atlas_image, moving_image) ==
    ElastixRegistrationMethodNew(atlas_image, moving_image)

\* register.py:70-72
ElastixInputs(atlas_image, moving_image) ==
    ElastixRegistrationMethodNew(moving_image, atlas_image)

\* src/src/.../register.py:19-21
OlderElastixInputs(fixed_image, moving_image) ==
    ElastixRegistrationMethodNew(fixed_image, moving_image)

\* a faulty variant of WrittenComponents: the components are written as
\* they are numbered
WrittenAsNumbered(field) ==
    [deformation_field_0 |-> Component(field, 0),
     deformation_field_1 |-> Component(field, 1)]

\* register.py:117-124: what imwrite is given for each file
WrittenComponents(field) ==
    [deformation_field_0 |-> Component(field, 1),
     deformation_field_1 |-> Component(field, 0)]

\* register.py:133: the field is returned as transformix produced it
ReturnedField(field) == field

\* a faulty variant of Reachable: the transform is shared from the moment
\* the engine hands it over
ReachableOnceCreated(r) ==
    pc[r] \in {"registered", "overridden", "restored", "computed",
               "returned", "unlink_error"}

\* the transform object is a local of the call: it leaves the call only in
\* the returned tuple (register.py:129-134, src/src/.../register.py:38)
Reachable(r) == pc[r] = "returned"

\* the transform holds the temporary override (between lines 90 and 99)
OverrideActive(r) == pc[r] = "overridden"

\* the directory the stray artifact is unlinked from (register.py:125, 127)
UnlinkDirectory(output_directory) ==
    IF IsNone(output_directory) THEN Cwd ELSE The(output_directory)

runInit ==
    /\ pc = [r \in Callers |-> "idle"]
    /\ args = [r \in Callers |-> None]
    /\ elastix_object = [r \in Callers |-> None]
    /\ result_transform_parameters = [r \in Callers |-> <<>>]
    /\ temp_interp_order = [r \in Callers |-> None]
    /\ pre_override = [r \in Callers |-> <<>>]
    /\ annotation_image_transformix = [r \in Callers |-> None]
    /\ deformation_field = [r \in Callers |-> None]
    /\ returned = [r \in Callers |-> None]
    /\ files = {}
    /\ last_read = None

\* a caller calls run_registration
Call(r) ==
    /\ pc[r] = "idle"
    /\ \E a \in RunArgs :
        /\ args' = [args EXCEPT ![r] = Some(a)]
        /\ pc' = [pc EXCEPT ![r] = "called"]
    /\ UNCHANGED <<buildVars, viewVars, elastix_object, result_transform_parameters, temp_interp_order,
                   pre_override, annotation_image_transformix, deformation_field,
                   returned, files, last_read>>

\* a caller calls the older run_registration
CallOlder(r) ==
    /\ pc[r] = "idle"
    /\ \E a \in OlderArgs :
        /\ args' = [args EXCEPT ![r] = Some(a)]
        /\ pc' = [pc EXCEPT ![r] = "called"]
    /\ UNCHANGED <<buildVars, viewVars, elastix_object, result_transform_parameters, temp_interp_order,
                   pre_override, annotation_image_transformix, deformation_field,
                   returned, files, last_read>>

\* register.py:66-86. setup_parameter_object's error is not caught. Given
\* no stage, the engine raises, or line 87 reads map 0 of an object that
\* has none: either way the call ends in an error
Register(r) ==
    /\ pc[r] = "called"
    /\ The(args[r]).impl = "current"
    /\ LET a == The(args[r])
           built == setup_parameter_object(a.parameter_lists)
           elastix == ElastixInputs(a.atlas_image, a.moving_image)
       IN  IF built.raised \/ built.maps = <<>>
           THEN /\ pc' = [pc EXCEPT ![r] = "engine_error"]
                /\ UNCHANGED <<buildVars, viewVars, elastix_object, result_transform_parameters>>
           ELSE /\ pc' = [pc EXCEPT ![r] = "registered"]
                /\ elastix_object' = [elastix_object EXCEPT ![r] = Some(elastix)]
                /\ result_transform_parameters' =
                     [result_transform_parameters EXCEPT
                        ![r] = GetTransformParameterObject(built.maps)]
    /\ UNCHANGED <<buildVars, viewVars, args, temp_interp_order, pre_override,
                   annotation_image_transformix, deformation_field, returned,
                   files, last_read>>

\* register.py:87-97: the order of stage 0 is saved, every stage is set to
\* "0", and the annotation image is resampled
Override(r) ==
    /\ pc[r] = "registered"
    /\ LET t == result_transform_parameters[r]
           zeroed == SetParameter(t, OrderKey, AsValues("0"))
       IN  /\ temp_interp_order' =
                [temp_interp_order EXCEPT ![r] = Some(GetParameter(t, 0, OrderKey))]
           /\ pre_override' = [pre_override EXCEPT ![r] = t]
           /\ result_transform_parameters' =
                [result_transform_parameters EXCEPT ![r] = zeroed]
           /\ annotation_image_transformix' =
                [annotation_image_transformix EXCEPT
                   ![r] = Some(transformix_filter(The(args[r]).annotation_image, zeroed))]
    /\ pc' = [pc EXCEPT ![r] = "overridden"]
    /\ UNCHANGED <<buildVars, viewVars, args, elastix_object, deformation_field, returned, files, last_read>>

\* register.py:99-101
Restore(r) ==
    /\ pc[r] = "overridden"
    /\ result_transform_parameters' =
         [result_transform_parameters EXCEPT
            ![r] = SetParameter(@, OrderKey, The(temp_interp_order[r]))]
    /\ pc' = [pc EXCEPT ![r] = "restored"]
    /\ UNCHANGED <<buildVars, viewVars, args, elastix_object, temp_interp_order, pre_override,
                   annotation_image_transformix, deformation_field, returned,
                   files, last_read>>

\* register.py:103-113: transformix computes the field and leaves
\* deformationField.tiff in the output directory, or in the working directory
ComputeDeformationField(r) ==
    /\ pc[r] = "restored"
    /\ deformation_field' = [deformation_field EXCEPT ![r] = Some(EngineField(r))]
    /\ files' = WriteFile(files, UnlinkDirectory(The(args[r]).output_directory),
                          StrayName, EngineField(r), r)
    /\ pc' = [pc EXCEPT ![r] = "computed"]
    /\ UNCHANGED <<buildVars, viewVars, args, elastix_object, result_transform_parameters,
                   temp_interp_order, pre_override, annotation_image_transformix,
                   returned, last_read>>

\* register.py:115-134: the two component files, the unlink, the return.
\* os.unlink raises FileNotFoundError when the path is absent; nothing
\* catches it
WriteAndReturn(r) ==
    /\ pc[r] = "computed"
    /\ LET a == The(args[r])
           field == The(deformation_field[r])
           dir == UnlinkDirectory(a.output_directory)
           written ==
             IF IsNone(a.output_directory) THEN files
             ELSE WriteFile(
                    WriteFile(files, dir, "deformation_field_0.tiff",
                              <<WrittenComponents(field).deformation_field_0>>, r),
                    dir, "deformation_field_1.tiff",
                    <<WrittenComponents(field).deformation_field_1>>, r)
       IN  IF Exists(written, dir, StrayName)
           THEN /\ files' = unlink(written, dir, StrayName)
                /\ pc' = [pc EXCEPT ![r] = "returned"]
                /\ returned' =
                     [returned EXCEPT
                        ![r] = Some([result_image |-> GetOutput(The(elastix_object[r])),
                                     annotation |-> The(annotation_image_transformix[r]),
                                     deformation_field |-> ReturnedField(field)])]
           ELSE /\ files' = written
                /\ pc' = [pc EXCEPT ![r] = "unlink_error"]
                /\ UNCHANGED returned
    /\ UNCHANGED <<buildVars, viewVars, args, elastix_object, result_transform_parameters,
                   temp_interp_order, pre_override, annotation_image_transformix,
                   deformation_field, last_read>>

\* src/src/.../register.py:5-38, the whole older run_registration
RunOlder(r) ==
    /\ pc[r] = "called"
    /\ The(args[r]).impl = "older"
    /\ LET a == The(args[r])
           maps == setup_parameter_object_flags(a.rigid, a.affine, a.bspline,
                                                a.affine_iterations)
           elastix == OlderElastixInputs(a.fixed_image, a.moving_image)
       IN  IF maps = <<>>
           THEN /\ pc' = [pc EXCEPT ![r] = "engine_error"]
                /\ UNCHANGED <<buildVars, viewVars, elastix_object, result_transform_parameters, returned>>
           ELSE /\ pc' = [pc EXCEPT ![r] = "returned"]
                /\ elastix_object' = [elastix_object EXCEPT ![r] = Some(elastix)]
                /\ result_transform_parameters' =
                     [result_transform_parameters EXCEPT
                        ![r] = GetTransformParameterObject(maps)]
                /\ returned' =
                     [returned EXCEPT ![r] = Some([result_image |-> GetOutput(elastix)])]
    /\ UNCHANGED <<buildVars, viewVars, args, temp_interp_order, pre_override,
                   annotation_image_transformix, deformation_field, files, last_read>>

\* a consumer reads a stage's order from a transform object it can reach
Consume(r) ==
    /\ Reachable(r)
    /\ \E i \in DOMAIN result_transform_parameters[r] :
        last_read' = Some([of |-> r, stage |-> i,
                           value |-> result_transform_parameters[r][i][OrderKey],
                           temporary |-> OverrideActive(r)])
    /\ UNCHANGED <<buildVars, viewVars, pc, args, elastix_object, result_transform_parameters,
                   temp_interp_order, pre_override, annotation_image_transformix,
                   deformation_field, returned, files>>

-----------------------------------------------------------------------------
(* AdjustMovingImageView, widgets/adjust_moving_image_view.py *)

\* the rotation is held in hundredths of a degree (QDoubleSpinBox shows two
\* decimals)
min_offset_range == -2000
max_offset_range == 2000
MinRotate == -36000
MaxRotate == 36000
SingleStep == 50

Offsets == (0 - MaxOffset)..MaxOffset
Rotations == {k * SingleStep : k \in (0 - MaxRotateSteps)..MaxRotateSteps}

Fields(view) == <<view.x, view.y, view.rotate>>

\* a faulty variant of on_adjust_image: x and y are exchanged
on_adjust_image_swapped(view) == <<view.y, view.x, view.rotate>>

\* _on_adjust_image: the payload of adjust_image_signal
on_adjust_image(view) == <<view.x, view.y, view.rotate>>

AdjustEvent(view) ==
    [signal |-> "adjust_image_signal", payload |-> on_adjust_image(view),
     fields |-> Fields(view)]

ResetEvent(view) ==
    [signal |-> "reset_image_signal", payload |-> <<>>, fields |-> Fields(view)]

Clamp(v, lo, hi) == IF v < lo THEN lo ELSE IF v > hi THEN hi ELSE v

\* QSpinBox.setValue: the value is bounded to the range; valueChanged is
\* emitted, and its slot _on_adjust_image run, only when the value changes
setValue(st, field, v, lo, hi) ==
    LET b == Clamp(v, lo, hi)
        view == [st.view EXCEPT ![field] = b]
    IN  IF b = st.view[field] THEN st
        ELSE [view |-> view, emitted |-> Append(st.emitted, AdjustEvent(view))]

\* _on_reset_image_button_click
on_reset_image_button_click(st) ==
    LET s1 == setValue(st, "x", 0, min_offset_range, max_offset_range)
        s2 == setValue(s1, "y", 0, min_offset_range, max_offset_range)
        s3 == setValue(s2, "rotate", 0, MinRotate, MaxRotate)
    IN  [view |-> s3.view, emitted |-> Append(s3.emitted, ResetEvent(s3.view))]

View ==
    [x |-> adjust_moving_image_x, y |-> adjust_moving_image_y,
     rotate |-> adjust_moving_image_rotate]

\* an event is dispatched: its handler runs to the end
Dispatch(kind, st) ==
    /\ adjust_moving_image_x' = st.view.x
    /\ adjust_moving_image_y' = st.view.y
    /\ adjust_moving_image_rotate' = st.view.rotate
    /\ emitted' = st.emitted
    /\ last_event' = [kind |-> kind, before |-> Fields(View)]
    /\ UNCHANGED <<buildVars, runVars>>

Fresh == [view |-> View, emitted |-> <<>>]

viewInit ==
    /\ adjust_moving_image_x = 0
    /\ adjust_moving_image_y = 0
    /\ adjust_moving_image_rotate = 0
    /\ emitted = <<>>
    /\ last_event = [kind |-> "none", before |-> <<0, 0, 0>>]

EditX ==
    \E v \in Offsets :
        Dispatch("x", setValue(Fresh, "x", v, min_offset_range, max_offset_range))

EditY ==
    \E v \in Offsets :
        Dispatch("y", setValue(Fresh, "y", v, min_offset_range, max_offset_range))

EditRotate ==
    \E v \in Rotations :
        Dispatch("rotate", setValue(Fresh, "rotate", v, MinRotate, MaxRotate))

ClickReset == Dispatch("reset", on_reset_image_button_click(Fresh))

-----------------------------------------------------------------------------
(* Specifications *)

buildInit ==
    /\ parameter_lists \in ListsUpTo(Entries, MaxStages)
    /\ parameter_object = <<>>
    /\ build_pc = "called"

buildIdle ==
    /\ parameter_lists = <<>>
    /\ parameter_object = <<>>
    /\ build_pc = "idle"

\* the call of setup_parameter_object(parameter_lists) runs
SetupParameterObject ==
    /\ build_pc = "called"
    /\ LET built == setup_parameter_object(parameter_lists)
       IN  /\ parameter_object' = built.maps
           /\ build_pc' = IF built.raised THEN "raised" ELSE "returned"
    /\ UNCHANGED <<parameter_lists, runVars, viewVars>>

\* run_registration
Init == buildIdle /\ runInit /\ viewInit

Next ==
    \E r \in Callers :
        \/ Call(r)
        \/ CallOlder(r)
        \/ Register(r)
        \/ Override(r)
        \/ Restore(r)
        \/ ComputeDeformationField(r)
        \/ WriteAndReturn(r)
        \/ RunOlder(r)
        \/ Consume(r)

Spec == Init /\ [][Next]_vars

\* setup_parameter_object
BuildInit == buildInit /\ runInit /\ viewInit

BuildNext == SetupParameterObject

SpecBuild == BuildInit /\ [][BuildNext]_vars

\* AdjustMovingImageView
ViewInit == buildIdle /\ runInit /\ viewInit

ViewNext == EditX \/ EditY \/ EditRotate \/ ClickReset

SpecView == ViewInit /\ [][ViewNext]_vars
-----------------------------------------------------------------------------
(* setup_parameter_object: properties, under SpecBuild *)

Built == build_pc = "returned"
DictOf(i) == The(parameter_lists[i][2])
KindOf(i) == parameter_lists[i][1]
AllDicts == \A i \in DOMAIN parameter_lists : ~IsNone(parameter_lists[i][2])

\* C1: for every list of (kind, options) pairs, the empty list and lists
\* that repeat a kind included, the call returns, the returned object has as
\* many maps as the list has entries, and the map at index i carries the
\* Transform override of the i-th entry: input order is stage order.
C1_StageOrder ==
    build_pc # "called" =>
        /\ AllDicts => Built
        /\ Built =>
            /\ Len(parameter_object) = Len(parameter_lists)
            /\ \A i \in DOMAIN parameter_lists :
                "Transform" \in DOMAIN DictOf(i) =>
                    /\ "Transform" \in DOMAIN parameter_object[i]
                    /\ parameter_object[i]["Transform"] = DictOf(i)["Transform"]

\* a repeated kind, the two entries overriding Transform differently
C1_Witness ==
    /\ Built
    /\ Len(parameter_lists) >= 2
    /\ KindOf(1) = KindOf(2)
    /\ "Transform" \in DOMAIN DictOf(1) \cap DOMAIN DictOf(2)
    /\ DictOf(1)["Transform"] # DictOf(2)["Transform"]

\* C3: a stage's map holds exactly the caller's keys with the caller's
\* values; no entry of the kind's default map survives unless the caller
\* supplied it (replace, not merge).
C3_ReplaceNotMerge ==
    Built =>
        \A i \in DOMAIN parameter_lists :
            /\ DOMAIN parameter_object[i] = DOMAIN DictOf(i)
            /\ \A k \in DOMAIN DictOf(i) : parameter_object[i][k] = DictOf(i)[k]

\* a stage whose dict sets only Transform, to another value than the default
C3_Witness ==
    /\ Built
    /\ \E i \in DOMAIN parameter_lists :
        /\ DOMAIN DictOf(i) = {"Transform"}
        /\ DictOf(i)["Transform"] # GetDefaultParameterMap(KindOf(i))["Transform"]

\* a stage given no dictionary: None, or a dictionary with no entry
NoDictionary(i) ==
    IsNone(parameter_lists[i][2]) \/ The(parameter_lists[i][2]) = EmptyMap

\* C4, as stated: if the caller supplies no dictionary for a stage, the map
\* added for that stage is the engine's default map for the kind, unmodified.
C4_DefaultWhenNoDictionary ==
    build_pc # "called" =>
        \A i \in DOMAIN parameter_lists :
            NoDictionary(i) =>
                /\ Built
                /\ parameter_object[i] = GetDefaultParameterMap(KindOf(i))

\* C4, amended: if the caller supplies an empty dictionary for a stage, the
\* map added for that stage is empty, no default entry of the kind remains;
\* if the caller supplies None for a stage, the call raises and returns no
\* parameter object.
C4_EmptyWhenNoDictionary ==
    build_pc # "called" =>
        /\ (\E i \in DOMAIN parameter_lists : IsNone(parameter_lists[i][2]))
              => build_pc = "raised"
        /\ Built =>
            \A i \in DOMAIN parameter_lists :
                DictOf(i) = EmptyMap => parameter_object[i] = EmptyMap

\* a returned object with a stage that was given the empty dictionary
C4_Witness ==
    /\ Built
    /\ \E i \in DOMAIN parameter_lists : DictOf(i) = EmptyMap

-----------------------------------------------------------------------------
(* run_registration: properties, under Spec *)

Current(r) == ~IsNone(args[r]) /\ The(args[r]).impl = "current"
Older(r) == ~IsNone(args[r]) /\ The(args[r]).impl = "older"
PastRestore(r) ==
    Current(r) /\ pc[r] \in {"restored", "computed", "returned", "unlink_error"}

\* C2: once run_registration has overridden the order to "0", resampled the
\* annotation and restored, every stage of the transform holds the order it
\* held before the override, whatever the stages' orders were.
C2_EveryStageRestored ==
    \A r \in Callers :
        PastRestore(r) =>
            \A i \in DOMAIN result_transform_parameters[r] :
                result_transform_parameters[r][i][OrderKey]
                    = pre_override[r][i][OrderKey]

\* C5: after run_registration returns, no deformationField.tiff that its
\* deformation-field computation produced remains on disk, with an output
\* directory and without.
C5_NoStrayArtifact ==
    \A r \in Callers :
        (Current(r) /\ pc[r] = "returned") =>
            ~ \E f \in files : f.name = StrayName /\ f.producer = r

\* one call returned with an output directory, another without
C5_Witness ==
    /\ Current("A") /\ pc["A"] = "returned"
    /\ Current("B") /\ pc["B"] = "returned"
    /\ ~IsNone(The(args["A"]).output_directory)
    /\ IsNone(The(args["B"]).output_directory)

\* C6: if removing the stray artifact fails, run_registration still returns
\* the outcome of the successful registration.
C6_CleanupFailureKeepsOutcome ==
    \A r \in Callers : pc[r] = "unlink_error" => ~IsNone(returned[r])

ComponentFile(r, name) == {f \in files : f.name = name /\ f.producer = r}

ReferenceArgument(r) ==
    IF Current(r) THEN The(args[r]).atlas_image ELSE The(args[r]).fixed_image

\* C9, as stated: both implementations hand the engine the fixed/reference
\* (atlas) argument as the fixed image and the moving argument as the moving
\* image, and return the moving image resampled into the fixed image's space.
C9_ArgumentsKeepRoles ==
    \A r \in Callers :
        ~IsNone(elastix_object[r]) =>
            /\ The(elastix_object[r]).fixed = ReferenceArgument(r)
            /\ The(elastix_object[r]).moving = The(args[r]).moving_image
            /\ pc[r] = "returned" =>
                 The(returned[r]).result_image =
                    [content |-> The(args[r]).moving_image,
                     space |-> ReferenceArgument(r)]

\* C9, amended: the older run_registration does so; the current one hands
\* the engine its moving_image argument as the fixed image and its
\* atlas_image argument as the moving image, and returns the atlas image
\* resampled into the space of the moving_image argument.
C9_RolesPerImplementation ==
    \A r \in Callers :
        ~IsNone(elastix_object[r]) =>
            LET a == The(args[r])
                e == The(elastix_object[r])
            IN  /\ Older(r) =>
                     /\ e.fixed = a.fixed_image /\ e.moving = a.moving_image
                     /\ pc[r] = "returned" =>
                          The(returned[r]).result_image =
                             [content |-> a.moving_image, space |-> a.fixed_image]
                /\ Current(r) =>
                     /\ e.fixed = a.moving_image /\ e.moving = a.atlas_image
                     /\ pc[r] = "returned" =>
                          The(returned[r]).result_image =
                             [content |-> a.atlas_image, space |-> a.moving_image]

\* a call of each implementation has returned
C9_Witness ==
    /\ Current("A") /\ pc["A"] = "returned"
    /\ Older("B") /\ pc["B"] = "returned"

-----------------------------------------------------------------------------
(* AdjustMovingImageView: properties, under SpecView *)

NonZero(before) == {i \in 1..3 : before[i] # 0}

\* C10: from any values of the three fields, a click on the reset button
\* emits reset_image_signal exactly once, after every adjust_image_signal
\* the zeroing triggers (one per field that was not 0); the three fields are
\* 0 when reset_image_signal is emitted; and every adjust_image_signal
\* carries the values the fields hold when it is emitted.
C10_ResetAfterAdjust ==
    /\ last_event.kind = "reset" =>
        /\ Len(emitted) = Cardinality(NonZero(last_event.before)) + 1
        /\ emitted[Len(emitted)].signal = "reset_image_signal"
        /\ emitted[Len(emitted)].fields = <<0, 0, 0>>
        /\ \A i \in 1..(Len(emitted) - 1) :
             emitted[i].signal = "adjust_image_signal"
    /\ \A i \in DOMAIN emitted :
        emitted[i].signal = "adjust_image_signal" =>
            emitted[i].payload = emitted[i].fields

\* a click with all three fields away from 0
C10_Witness ==
    /\ last_event.kind = "reset"
    /\ NonZero(last_event.before) = {1, 2, 3}
    /\ Len(emitted) = 4
====
